---- MODULE Spec2Model ----
(***************************************************************************)
(* Model of breakout4k.py: the frame loop of main(), its event handlers,   *)
(* the fixed-step simulation (move, walls, bottom, paddle, bricks) and the *)
(* helpers brick_rect, reset_bricks, reset_ball_paddle, all_bricks_cleared *)
(* and reflect_from_brick.                                                 *)
(*                                                                         *)
(* Units.  Positions are integer pixels, as in pygame.Rect.  Velocities    *)
(* are Python floats in px/s; here they are fixed-point integers in units  *)
(* of 1/VSCALE px/s.  Angles are integers in units of 1.5 degrees, the     *)
(* granularity of the paddle formula (hit - 0.5) * (pi / 1.2) when hit is  *)
(* a whole number of pixels over a paddle of 100 pixels.  Time is counted  *)
(* in ticks, TimeRes ticks to one fixed step.                              *)
(*                                                                         *)
(* Scope.  The brick grid is a window of the program's grid (FirstRow,     *)
(* MaxRows, MaxCols), the inputs come from the small sets LaunchAngles,    *)
(* DirSigns, MouseXs and FrameTicks, and a round is followed for MaxSteps  *)
(* fixed steps.  Quitting, drawing and the playing of sounds are left out:  *)
(* they write none of the variables below.                                 *)
(***************************************************************************)
EXTENDS Integers, Sequences, FiniteSets, TLC

\* ------------------------------------------------------------------ bounds
\* Bricks present in the model: a window of the program's 6 x 10 grid,
\* MaxRows rows from row FirstRow down, of the centre MaxCols columns.
FirstRow == 2
MaxRows == 1
MaxCols == 2
\* Ticks per fixed step, and the longest frame in ticks.
TimeRes == 2
MaxFrame == 3
\* Fixed steps explored after construction or a reset.
MaxSteps == 520

\* --------------------------------------------------------------- constants
WIN_W == 800
WIN_H == 600
FPS == 60
PADDLE_W == 100
PADDLE_H == 14
PADDLE_Y == 560
BALL_SIZE == 10
VSCALE == 100
BALL_SPEED == 320 * VSCALE
BRICK_COLS == 10
BRICK_ROWS == 6
BRICK_W == 70
BRICK_H == 22
BRICK_TOP == 80
BRICK_LEFT == 65
BRICK_GAP == 6
START_LIVES == 3
BRICK_SCORE == 10

\* One second in ticks; DT = 1.0 / 60.0 seconds.
TICKS_PER_SEC == FPS * TimeRes
DT == TICKS_PER_SEC \div 60

\* ------------------------------------------------------------ input sets
\* Launch angles drawn by reset_ball_paddle, in units of 1.5 degrees
\* (47 = 70.5 degrees, 60 = 90 degrees; the code draws from [45, 135) degrees).
LaunchAngles == {47, 60}
DirSigns == {-1, 1}
\* Mouse x positions reported by pygame.mouse.get_pos().
MouseXs == {185, 347, 392}
FrameTicks == 1..MaxFrame

\* ------------------------------------------------------------ arithmetic
Abs(n) == IF n < 0 THEN -n ELSE n

\* Python int(): truncation toward zero of n / d, d > 0.
Trunc(n, d) == IF n >= 0 THEN n \div d ELSE -((-n) \div d)

\* n / d rounded to the nearest integer, d > 0 (fixed-point product).
Round(n, d) == IF n >= 0 THEN (2 * n + d) \div (2 * d)
                         ELSE -((2 * (-n) + d) \div (2 * d))

RECURSIVE SqrtIter(_, _, _)
SqrtIter(n, lo, hi) ==
    IF lo >= hi THEN lo
    ELSE LET mid == (lo + hi + 1) \div 2
         IN IF mid * mid <= n THEN SqrtIter(n, mid, hi)
                              ELSE SqrtIter(n, lo, mid - 1)

\* math.hypot on fixed-point components: nearest integer to sqrt(x^2 + y^2).
Hypot(x, y) ==
    LET n == x * x + y * y
        f == SqrtIter(n, 0, 46340)
    IN IF n - f * f > f THEN f + 1 ELSE f

\* 10000 * sin(k * 1.5 degrees), k = 0..60.
SinTab == <<0, 262, 523, 785, 1045, 1305, 1564, 1822, 2079, 2334, 2588,
            2840, 3090, 3338, 3584, 3827, 4067, 4305, 4540, 4772, 5000,
            5225, 5446, 5664, 5878, 6088, 6293, 6494, 6691, 6884, 7071,
            7254, 7431, 7604, 7771, 7934, 8090, 8241, 8387, 8526, 8660,
            8788, 8910, 9026, 9135, 9239, 9336, 9426, 9511, 9588, 9659,
            9724, 9781, 9833, 9877, 9914, 9945, 9969, 9986, 9997, 10000>>
TRIG == 10000

\* math.sin and math.cos of k * 1.5 degrees, scaled by TRIG, for -120 <= k <= 120.
Sin(k) == LET a == Abs(k)
              v == IF a <= 60 THEN SinTab[a + 1] ELSE SinTab[120 - a + 1]
          IN IF k < 0 THEN -v ELSE v
Cos(k) == LET a == Abs(k)
          IN IF a <= 60 THEN SinTab[60 - a + 1] ELSE -SinTab[a - 60 + 1]

\* ------------------------------------------------------------- rectangles
Rect(x, y, w, h) == [x |-> x, y |-> y, w |-> w, h |-> h]
Left(r) == r.x
Right(r) == r.x + r.w
Top(r) == r.y
Bottom(r) == r.y + r.h
CenterX(r) == r.x + r.w \div 2
SetLeft(r, v) == [r EXCEPT !.x = v]
SetRight(r, v) == [r EXCEPT !.x = v - r.w]
SetTop(r, v) == [r EXCEPT !.y = v]
SetBottom(r, v) == [r EXCEPT !.y = v - r.h]
SetCenterX(r, v) == [r EXCEPT !.x = v - r.w \div 2]

\* pygame.Rect.colliderect: strict overlap on both axes.
colliderect(a, b) ==
    /\ Left(a) < Right(b)
    /\ Right(a) > Left(b)
    /\ Top(a) < Bottom(b)
    /\ Bottom(a) > Top(b)

\* range(BRICK_ROWS) and range(BRICK_COLS), restricted to the modelled bricks.
Rows == {r \in 0..(BRICK_ROWS - 1) : r >= FirstRow /\ r < FirstRow + MaxRows}
Cols == {c \in 0..(BRICK_COLS - 1) :
            /\ c >= (BRICK_COLS - MaxCols) \div 2
            /\ c < (BRICK_COLS - MaxCols) \div 2 + MaxCols}

brick_rect(r, c) ==
    Rect(BRICK_LEFT + c * (BRICK_W + BRICK_GAP),
         BRICK_TOP + r * (BRICK_H + BRICK_GAP), BRICK_W, BRICK_H)

reset_bricks == [r \in Rows |-> [c \in Cols |-> 1]]

\* reset_ball_paddle with the two rng draws resolved to angle a and sign sg.
reset_ball_paddle(a, sg) ==
    [paddle |-> Rect((WIN_W - PADDLE_W) \div 2, PADDLE_Y, PADDLE_W, PADDLE_H),
     ball   |-> Rect(WIN_W \div 2 - BALL_SIZE \div 2, WIN_H \div 2 + 60,
                     BALL_SIZE, BALL_SIZE),
     vel    |-> <<Round(Cos(a) * BALL_SPEED, TRIG) * sg,
                  -Abs(Round(Sin(a) * BALL_SPEED, TRIG))>>]

\* Variant: reports cleared as soon as it meets one dead brick.
all_bricks_cleared_any(bricks) ==
    \E r \in Rows : \E c \in Cols : bricks[r][c] = 0

all_bricks_cleared(bricks) ==
    \A r \in Rows : \A c \in Cols : bricks[r][c] = 0

\* Variant: a later side wins a tie for the smallest penetration.
reflect_from_brick_lasttie(ball, rb, vel) ==
    LET left_pen  == Right(rb) - Left(ball)
        right_pen == Right(ball) - Left(rb)
        top_pen   == Bottom(rb) - Top(ball)
        bot_pen   == Bottom(ball) - Top(rb)
        m0 == [pen |-> left_pen, nx |-> 1, ny |-> 0]
        m1 == IF right_pen <= m0.pen
              THEN [pen |-> right_pen, nx |-> -1, ny |-> 0] ELSE m0
        m2 == IF top_pen <= m1.pen
              THEN [pen |-> top_pen, nx |-> 0, ny |-> 1] ELSE m1
        m3 == IF bot_pen <= m2.pen
              THEN [pen |-> bot_pen, nx |-> 0, ny |-> -1] ELSE m2
        bx == IF m3.nx = 0 THEN ball
              ELSE IF m3.nx > 0 THEN SetLeft(ball, Right(rb) + 1)
                                ELSE SetRight(ball, Left(rb) - 1)
        by == IF m3.ny = 0 THEN bx
              ELSE IF m3.ny > 0 THEN SetTop(bx, Bottom(rb) + 1)
                                ELSE SetBottom(bx, Top(rb) - 1)
    IN [ball |-> by,
        vel  |-> <<IF m3.nx # 0 THEN -vel[1] ELSE vel[1],
                   IF m3.ny # 0 THEN -vel[2] ELSE vel[2]>>]

\* reflect_from_brick: returns the ball and velocity it leaves behind.
reflect_from_brick(ball, rb, vel) ==
    LET left_pen  == Right(rb) - Left(ball)
        right_pen == Right(ball) - Left(rb)
        top_pen   == Bottom(rb) - Top(ball)
        bot_pen   == Bottom(ball) - Top(rb)
        m0 == [pen |-> left_pen, nx |-> 1, ny |-> 0]
        m1 == IF right_pen < m0.pen
              THEN [pen |-> right_pen, nx |-> -1, ny |-> 0] ELSE m0
        m2 == IF top_pen < m1.pen
              THEN [pen |-> top_pen, nx |-> 0, ny |-> 1] ELSE m1
        m3 == IF bot_pen < m2.pen
              THEN [pen |-> bot_pen, nx |-> 0, ny |-> -1] ELSE m2
        bx == IF m3.nx = 0 THEN ball
              ELSE IF m3.nx > 0 THEN SetLeft(ball, Right(rb) + 1)
                                ELSE SetRight(ball, Left(rb) - 1)
        by == IF m3.ny = 0 THEN bx
              ELSE IF m3.ny > 0 THEN SetTop(bx, Bottom(rb) + 1)
                                ELSE SetBottom(bx, Top(rb) - 1)
    IN [ball |-> by,
        vel  |-> <<IF m3.nx # 0 THEN -vel[1] ELSE vel[1],
                   IF m3.ny # 0 THEN -vel[2] ELSE vel[2]>>]

\* ------------------------------------------------------- the fixed step
\* A step works on a record of the locals of main() that it reads and
\* writes: ball, vel, paddle, bricks, lives, score, game_over, is_win,
\* hit_brick, and killed, the set of cells whose brick the step destroyed.

\* int(v * DT) for a velocity component v.
StepPixels(v) == Trunc(v * DT, TICKS_PER_SEC * VSCALE)

\* Move ball.
MoveBall(s) ==
    [s EXCEPT !.ball = [@ EXCEPT !.x = @ + StepPixels(s.vel[1]),
                                 !.y = @ + StepPixels(s.vel[2])]]

\* Variant: the walls reflect the velocity but do not clamp the box.
Walls_noclamp(s) ==
    LET h == IF Left(s.ball) <= 0
             THEN [s EXCEPT !.vel = <<Abs(@[1]), @[2]>>]
             ELSE IF Right(s.ball) >= WIN_W
             THEN [s EXCEPT !.vel = <<-Abs(@[1]), @[2]>>]
             ELSE s
    IN IF Top(h.ball) <= 0
       THEN [h EXCEPT !.vel = <<@[1], Abs(@[2])>>]
       ELSE h

\* Variant: the right wall sets vx as the left wall does.
Walls_rightabs(s) ==
    LET h == IF Left(s.ball) <= 0
             THEN [s EXCEPT !.ball = SetLeft(@, 0),
                            !.vel = <<Abs(@[1]), @[2]>>]
             ELSE IF Right(s.ball) >= WIN_W
             THEN [s EXCEPT !.ball = SetRight(@, WIN_W),
                            !.vel = <<Abs(@[1]), @[2]>>]
             ELSE s
    IN IF Top(h.ball) <= 0
       THEN [h EXCEPT !.ball = SetTop(@, 0),
                      !.vel = <<@[1], Abs(@[2])>>]
       ELSE h

\* Walls: left, else right; then top.
Walls(s) ==
    LET h == IF Left(s.ball) <= 0
             THEN [s EXCEPT !.ball = SetLeft(@, 0),
                            !.vel = <<Abs(@[1]), @[2]>>]
             ELSE IF Right(s.ball) >= WIN_W
             THEN [s EXCEPT !.ball = SetRight(@, WIN_W),
                            !.vel = <<-Abs(@[1]), @[2]>>]
             ELSE s
    IN IF Top(h.ball) <= 0
       THEN [h EXCEPT !.ball = SetTop(@, 0),
                      !.vel = <<@[1], Abs(@[2])>>]
       ELSE h

\* Variant: tests the ball's bottom edge instead of its top edge.
BottomFires_bottom(s) == Bottom(s.ball) > WIN_H

\* Bottom: lose life.
BottomFires(s) == Top(s.ball) > WIN_H

\* Variant: the game is over one life early.
LoseLife_early(s, a, sg) ==
    IF ~BottomFires(s) THEN s
    ELSE LET l == s.lives - 1
             n == reset_ball_paddle(a, sg)
         IN IF l <= 1
            THEN [s EXCEPT !.lives = l, !.game_over = TRUE, !.is_win = FALSE]
            ELSE [s EXCEPT !.lives = l, !.paddle = n.paddle,
                           !.ball = n.ball, !.vel = n.vel]

\* Variant: the ball is served again from a quarter of the window height.
LoseLife_serve_high(s, a, sg) ==
    IF ~BottomFires(s) THEN s
    ELSE LET l == s.lives - 1
             n == reset_ball_paddle(a, sg)
         IN IF l <= 0
            THEN [s EXCEPT !.lives = l, !.game_over = TRUE, !.is_win = FALSE]
            ELSE [s EXCEPT !.lives = l, !.paddle = n.paddle,
                           !.ball = SetTop(n.ball, WIN_H \div 4),
                           !.vel = n.vel]

LoseLife(s, a, sg) ==
    IF ~BottomFires(s) THEN s
    ELSE LET l == s.lives - 1
             n == reset_ball_paddle(a, sg)
         IN IF l <= 0
            THEN [s EXCEPT !.lives = l, !.game_over = TRUE, !.is_win = FALSE]
            ELSE [s EXCEPT !.lives = l, !.paddle = n.paddle,
                           !.ball = n.ball, !.vel = n.vel]

\* Paddle collision.
PaddleFires(s) == colliderect(s.ball, s.paddle) /\ s.vel[2] > 0

\* ang = (hit - 0.5) * (pi / 1.2) in units of 1.5 degrees, where
\* hit = (ball.centerx - paddle.left) / paddle.width; exact for width 100.
PaddleAngle(s) ==
    LET d == CenterX(s.ball) - Left(s.paddle)
    IN (100 * d - 50 * s.paddle.w) \div s.paddle.w

\* Variant: the vertical component keeps pointing down.
PaddleCollision_down(s) ==
    IF ~PaddleFires(s) THEN s
    ELSE LET ang   == PaddleAngle(s)
             speed == Hypot(s.vel[1], s.vel[2])
         IN [s EXCEPT !.vel = <<Round(speed * Sin(ang), TRIG),
                                Abs(Round(speed * Cos(ang), TRIG))>>,
                      !.ball = SetBottom(@, Top(s.paddle) - 1)]

\* Variant: only the horizontal component is recomputed.
PaddleCollision_keepvy(s) ==
    IF ~PaddleFires(s) THEN s
    ELSE LET ang   == PaddleAngle(s)
             speed == Hypot(s.vel[1], s.vel[2])
         IN [s EXCEPT !.vel = <<Round(speed * Sin(ang), TRIG), -Abs(@[2])>>,
                      !.ball = SetBottom(@, Top(s.paddle) - 1)]

PaddleCollision(s) ==
    IF ~PaddleFires(s) THEN s
    ELSE LET ang   == PaddleAngle(s)
             speed == Hypot(s.vel[1], s.vel[2])
         IN [s EXCEPT !.vel = <<Round(speed * Sin(ang), TRIG),
                                -Abs(Round(speed * Cos(ang), TRIG))>>,
                      !.ball = SetBottom(@, Top(s.paddle) - 1)]

\* Body of "if ball.colliderect(rb):" for brick (r, c).
HitBrick(s, r, c) ==
    LET rf == reflect_from_brick(s.ball, brick_rect(r, c), s.vel)
        nb == [s.bricks EXCEPT ![r][c] = 0]
        won == all_bricks_cleared(nb)
    IN [s EXCEPT !.ball = rf.ball, !.vel = rf.vel, !.bricks = nb,
                 !.score = @ + BRICK_SCORE, !.hit_brick = TRUE,
                 !.killed = @ \cup {<<r, c>>},
                 !.game_over = IF won THEN TRUE ELSE @,
                 !.is_win = IF won THEN TRUE ELSE @]

\* Variant: the columns of a row are scanned from the right.
RECURSIVE ScanCols_fromright(_, _, _)
ScanCols_fromright(s, r, c) ==
    IF c >= BRICK_COLS THEN s
    ELSE LET rest == ScanCols_fromright(s, r, c + 1)
         IN IF rest.hit_brick THEN rest
            ELSE IF c \in Cols /\ s.bricks[r][c] # 0
                    /\ colliderect(s.ball, brick_rect(r, c))
            THEN HitBrick(s, r, c)
            ELSE rest

\* Variant: a hit does not break out of the scan.
RECURSIVE ScanCols_nobreak(_, _, _)
ScanCols_nobreak(s, r, c) ==
    IF c >= BRICK_COLS THEN s
    ELSE IF c \notin Cols \/ s.bricks[r][c] = 0
    THEN ScanCols_nobreak(s, r, c + 1)
    ELSE IF colliderect(s.ball, brick_rect(r, c))
    THEN ScanCols_nobreak(HitBrick(s, r, c), r, c + 1)
    ELSE ScanCols_nobreak(s, r, c + 1)

\* Variant: dead bricks are not skipped.
RECURSIVE ScanCols_nodeadcheck(_, _, _)
ScanCols_nodeadcheck(s, r, c) ==
    IF c >= BRICK_COLS THEN s
    ELSE IF c \notin Cols THEN ScanCols_nodeadcheck(s, r, c + 1)
    ELSE IF colliderect(s.ball, brick_rect(r, c)) THEN HitBrick(s, r, c)
    ELSE ScanCols_nodeadcheck(s, r, c + 1)

\* for c in range(BRICK_COLS), from column c on; a hit breaks out.
RECURSIVE ScanCols(_, _, _)
ScanCols(s, r, c) ==
    IF c >= BRICK_COLS THEN s
    ELSE IF c \notin Cols \/ s.bricks[r][c] = 0 THEN ScanCols(s, r, c + 1)
    ELSE IF colliderect(s.ball, brick_rect(r, c)) THEN HitBrick(s, r, c)
    ELSE ScanCols(s, r, c + 1)

\* for r in range(BRICK_ROWS), from row r on; stops once hit_brick.
RECURSIVE ScanRows(_, _)
ScanRows(s, r) ==
    IF r >= BRICK_ROWS \/ s.hit_brick THEN s
    ELSE ScanRows(IF r \in Rows THEN ScanCols(s, r, 0) ELSE s, r + 1)

\* Bricks.
Bricks(s) == ScanRows([s EXCEPT !.hit_brick = FALSE], 0)

\* Alive bricks that the ball's box intersects.
Overlapping(ball, bricks) ==
    {p \in Rows \X Cols :
        bricks[p[1]][p[2]] # 0 /\ colliderect(ball, brick_rect(p[1], p[2]))}

\* ------------------------------------------------------------------ state
VARIABLES
    ball, vel, paddle, bricks,      \* entities
    lives, score, paused, game_over, is_win,
    acc,                            \* time accumulator, in ticks
    pc,                             \* position in main()
    mixer_ok,                       \* pygame.mixer.init() succeeded
    last,                           \* what the last action did
    losses,                         \* life-loss events since the last reset
    steps,                          \* simulation steps since the last reset
    since_hit                       \* steps since the paddle response fired

vars == <<ball, vel, paddle, bricks, lives, score, paused, game_over,
          is_win, acc, pc, mixer_ok, last, losses, steps, since_hit>>

\* GameState of the flags.
GameState(p, g, w) ==
    IF g THEN (IF w THEN "Won" ELSE "Lost")
    ELSE IF p THEN "Paused" ELSE "Playing"

State == GameState(paused, game_over, is_win)

NoCell == {}

\* The record of an action that is not a simulation step, with ball b and
\* velocity v.  Of a step it keeps: v0, the velocity at its start; moved,
\* the ball after the move; wall and wvel, ball and velocity after wall
\* resolution; lost; pball0, pv0 and ppad, ball, velocity and paddle at the
\* paddle test (the round-start paddle when there was no step); paddle_hit; pball1 and pv1, ball and velocity at the start
\* of the brick phase; overlap and killed.
Still(op, b, v) ==
    [op |-> op, from |-> State, v0 |-> v, moved |-> b, wall |-> b,
     wvel |-> v, lost |-> FALSE, pball0 |-> b, pv0 |-> v,
     ppad |-> Rect((WIN_W - PADDLE_W) \div 2, PADDLE_Y, PADDLE_W, PADDLE_H),
     paddle_hit |-> FALSE, pball1 |-> b, pv1 |-> v,
     killed |-> NoCell, overlap |-> 0]

Did(op) == Still(op, ball, vel)

\* since_hit after a step: 0 if the paddle response fired in it.
SinceHit(fired) == IF fired THEN 0 ELSE IF since_hit = 0 THEN 1 ELSE 2

Init ==
    \E a \in LaunchAngles, sg \in DirSigns :
        LET n == reset_ball_paddle(a, sg)
        IN /\ bricks = reset_bricks
           /\ paddle = n.paddle
           /\ ball = n.ball
           /\ vel = n.vel
           /\ lives = START_LIVES
           /\ score = 0
           /\ paused = FALSE
           /\ game_over = FALSE
           /\ is_win = FALSE
           /\ acc = 0
           /\ pc = "start"
           /\ mixer_ok \in BOOLEAN
           /\ losses = 0
           /\ steps = 0
           /\ since_hit = 2
           /\ last = [op |-> "init", from |-> "Playing", v0 |-> n.vel,
                      moved |-> n.ball, wall |-> n.ball, wvel |-> n.vel,
                      lost |-> FALSE, pball0 |-> n.ball, pv0 |-> n.vel,
                      ppad |-> n.paddle, paddle_hit |-> FALSE,
                      pball1 |-> n.ball, pv1 |-> n.vel,
                      killed |-> NoCell, overlap |-> 0]

\* sounds = Sounds(); ...; sounds.play_start().  make_tone hands its samples
\* to pygame.sndarray.make_sound, which raises pygame.error when the mixer
\* is not initialised; nothing in main() catches it.
Start ==
    /\ pc = "start"
    /\ pc' = IF mixer_ok THEN "timing" ELSE "crashed"
    /\ last' = Did("start")
    /\ UNCHANGED <<ball, vel, paddle, bricks, lives, score, paused,
                   game_over, is_win, acc, mixer_ok, losses, steps,
                   since_hit>>

\* Timing: acc += frame.
Timing(frame) ==
    /\ pc = "timing"
    /\ acc' = acc + frame
    /\ pc' = "events"
    /\ last' = Did("timing")
    /\ UNCHANGED <<ball, vel, paddle, bricks, lives, score, paused,
                   game_over, is_win, mixer_ok, losses, steps, since_hit>>

\* Variant: P also leaves a finished game.
KeyP_resume ==
    /\ pc = "events"
    /\ paused' = ~paused
    /\ game_over' = FALSE
    /\ last' = Did("key_p")
    /\ UNCHANGED <<ball, vel, paddle, bricks, lives, score,
                   is_win, acc, pc, mixer_ok, losses, steps, since_hit>>

\* KEYDOWN K_p.
KeyP ==
    /\ pc = "events"
    /\ paused' = ~paused
    /\ last' = Did("key_p")
    /\ UNCHANGED <<ball, vel, paddle, bricks, lives, score,
                   game_over, is_win, acc, pc, mixer_ok, losses, steps, since_hit>>

\* Variant: R does not clear the score.
KeyR_keeps_score(a, sg) ==
    /\ pc = "events"
    /\ LET n == reset_ball_paddle(a, sg)
       IN /\ bricks' = reset_bricks
          /\ paddle' = n.paddle
          /\ ball' = n.ball
          /\ vel' = n.vel
          /\ last' = Still("key_r", n.ball, n.vel)
    /\ lives' = START_LIVES
    /\ paused' = FALSE
    /\ game_over' = FALSE
    /\ is_win' = FALSE
    /\ losses' = 0
    /\ steps' = 0
    /\ since_hit' = 2
    /\ UNCHANGED <<score, acc, pc, mixer_ok>>

\* Variant: R does not clear the pause flag.
KeyR_keeps_pause(a, sg) ==
    /\ pc = "events"
    /\ LET n == reset_ball_paddle(a, sg)
       IN /\ bricks' = reset_bricks
          /\ paddle' = n.paddle
          /\ ball' = n.ball
          /\ vel' = n.vel
          /\ last' = Still("key_r", n.ball, n.vel)
    /\ lives' = START_LIVES
    /\ score' = 0
    /\ game_over' = FALSE
    /\ is_win' = FALSE
    /\ losses' = 0
    /\ steps' = 0
    /\ since_hit' = 2
    /\ UNCHANGED <<paused, acc, pc, mixer_ok>>

\* KEYDOWN K_r.
KeyR(a, sg) ==
    /\ pc = "events"
    /\ LET n == reset_ball_paddle(a, sg)
       IN /\ bricks' = reset_bricks
          /\ paddle' = n.paddle
          /\ ball' = n.ball
          /\ vel' = n.vel
          /\ last' = Still("key_r", n.ball, n.vel)
    /\ lives' = START_LIVES
    /\ score' = 0
    /\ paused' = FALSE
    /\ game_over' = FALSE
    /\ is_win' = FALSE
    /\ losses' = 0
    /\ steps' = 0
    /\ since_hit' = 2
    /\ UNCHANGED <<acc, pc, mixer_ok>>

\* Mouse controls, after the event loop.
Mouse(mx) ==
    /\ pc = "events"
    /\ paddle' = IF game_over THEN paddle
                 ELSE LET p0 == SetCenterX(paddle, mx)
                          p1 == IF Left(p0) < 0 THEN SetLeft(p0, 0) ELSE p0
                      IN IF Right(p1) > WIN_W THEN SetRight(p1, WIN_W) ELSE p1
    /\ pc' = "update"
    /\ last' = Did("mouse")
    /\ UNCHANGED <<ball, vel, bricks, lives, score, paused,
                   game_over, is_win, acc, mixer_ok, losses, steps, since_hit>>

\* The draws of rng a step can consume.
Draws(s) == IF BottomFires(Walls(MoveBall(s)))
            THEN LaunchAngles \X DirSigns
            ELSE {CHOOSE d \in LaunchAngles \X DirSigns : TRUE}

\* Variant: the pause flag is not tested.
StepRuns_nopause == ~game_over

\* "if not paused and not game_over".
StepRuns == ~paused /\ ~game_over

\* One iteration of "while acc >= DT" in which the simulation runs.
FixedStep ==
    /\ pc = "update"
    /\ acc >= DT
    /\ StepRuns
    /\ steps < MaxSteps
    /\ steps' = steps + 1
    /\ LET s0 == [ball |-> ball, vel |-> vel, paddle |-> paddle,
                  bricks |-> bricks, lives |-> lives, score |-> score,
                  game_over |-> game_over, is_win |-> is_win,
                  hit_brick |-> FALSE, killed |-> NoCell]
       IN \E d \in Draws(s0) :
            LET s1 == MoveBall(s0)
                s2 == Walls(s1)
                s3 == LoseLife(s2, d[1], d[2])
                s4 == PaddleCollision(s3)
                s5 == Bricks(s4)
            IN /\ ball' = s5.ball
               /\ vel' = s5.vel
               /\ paddle' = s5.paddle
               /\ bricks' = s5.bricks
               /\ lives' = s5.lives
               /\ score' = s5.score
               /\ game_over' = s5.game_over
               /\ is_win' = s5.is_win
               /\ losses' = IF BottomFires(s2) THEN losses + 1 ELSE losses
               /\ since_hit' = SinceHit(PaddleFires(s3))
               /\ last' = [op |-> "step", from |-> State, v0 |-> s0.vel,
                           moved |-> s1.ball, wall |-> s2.ball,
                           wvel |-> s2.vel, lost |-> BottomFires(s2),
                           pball0 |-> s3.ball, pv0 |-> s3.vel,
                           ppad |-> s3.paddle,
                           paddle_hit |-> PaddleFires(s3),
                           pball1 |-> s4.ball, pv1 |-> s4.vel,
                           killed |-> s5.killed,
                           overlap |-> Cardinality(Overlapping(s4.ball, s4.bricks))]
    /\ acc' = acc - DT
    /\ UNCHANGED <<paused, pc, mixer_ok>>

\* Variant: an iteration without simulation drops the whole backlog.
IdleStep_flush ==
    /\ pc = "update"
    /\ acc >= DT
    /\ ~StepRuns
    /\ acc' = 0
    /\ last' = Did("idle")
    /\ UNCHANGED <<ball, vel, paddle, bricks, lives, score, paused,
                   game_over, is_win, pc, mixer_ok, losses, steps, since_hit>>

\* One iteration of "while acc >= DT" in which it does not.
IdleStep ==
    /\ pc = "update"
    /\ acc >= DT
    /\ ~StepRuns
    /\ acc' = acc - DT
    /\ last' = Did("idle")
    /\ UNCHANGED <<ball, vel, paddle, bricks, lives, score, paused,
                   game_over, is_win, pc, mixer_ok, losses, steps, since_hit>>

\* Draw, flip, clock.tick; back to the top of the loop.
Draw ==
    /\ pc = "update"
    /\ acc < DT
    /\ pc' = "timing"
    /\ last' = Did("draw")
    /\ UNCHANGED <<ball, vel, paddle, bricks, lives, score, paused,
                   game_over, is_win, acc, mixer_ok, losses, steps, since_hit>>

Next ==
    \/ Start
    \/ \E f \in FrameTicks : Timing(f)
    \/ KeyP
    \/ \E a \in LaunchAngles, sg \in DirSigns : KeyR(a, sg)
    \/ \E mx \in MouseXs : Mouse(mx)
    \/ FixedStep
    \/ IdleStep
    \/ Draw

Spec == Init /\ [][Next]_vars

\* ------------------------------------------- the phases on their own
\* The paddle and brick phases are functions of the ball, the velocity, the
\* paddle and the bricks.  SpecPaddle and SpecBricks apply one phase to
\* every input of a bounded set.

\* All variables, for a phase about to run on ball b, velocity v, paddle pd
\* and bricks br.
PhaseInput(p, b, v, pd, br) ==
    /\ ball = b
    /\ vel = v
    /\ paddle = pd
    /\ bricks = br
    /\ lives = START_LIVES
    /\ score = 0
    /\ paused = FALSE
    /\ game_over = FALSE
    /\ is_win = FALSE
    /\ acc = DT
    /\ pc = p
    /\ mixer_ok = TRUE
    /\ losses = 0
    /\ steps = 0
    /\ since_hit = 2
    /\ last = Still("input", b, v)

\* The locals a phase works on.
Locals ==
    [ball |-> ball, vel |-> vel, paddle |-> paddle, bricks |-> bricks,
     lives |-> lives, score |-> score, game_over |-> game_over,
     is_win |-> is_win, hit_brick |-> FALSE, killed |-> NoCell]

\* Velocities at the paddle test: speed BALL_SPEED at a few angles from
\* straight down, and two that point up.
PaddleVelsIn ==
    {<<Round(BALL_SPEED * Sin(k), TRIG), Round(BALL_SPEED * Cos(k), TRIG)>> :
        k \in {-59, -45, -20, -8, 0, 1, 13, 30, 52, 59}}
    \cup {<<0, -BALL_SPEED>>, <<Round(BALL_SPEED * Sin(30), TRIG),
                                -Round(BALL_SPEED * Cos(30), TRIG)>>}

\* Paddle positions: against the left edge, mid-window, against the right.
PaddleLefts == {0, (WIN_W - PADDLE_W) \div 2, WIN_W - PADDLE_W}

\* Ball positions around the paddle: every column that touches it and a
\* few that do not, at three heights.
PaddleBallsIn(pl) ==
    {Rect(x, y, BALL_SIZE, BALL_SIZE) :
        x \in (pl - BALL_SIZE - 2)..(pl + PADDLE_W + 2),
        y \in {PADDLE_Y - BALL_SIZE, PADDLE_Y - BALL_SIZE + 1, PADDLE_Y - 5}}

InitPaddle ==
    \E pl \in PaddleLefts :
        \E b \in PaddleBallsIn(pl), v \in PaddleVelsIn :
            PhaseInput("paddle_in", b, v,
                       Rect(pl, PADDLE_Y, PADDLE_W, PADDLE_H), reset_bricks)

\* The paddle phase of a step.
PaddlePhase ==
    /\ pc = "paddle_in"
    /\ LET s3 == Locals
           s4 == PaddleCollision(s3)
       IN /\ ball' = s4.ball
          /\ vel' = s4.vel
          /\ last' = [Still("paddle", ball, vel) EXCEPT
                         !.ppad = paddle,
                         !.paddle_hit = PaddleFires(s3),
                         !.pball1 = s4.ball, !.pv1 = s4.vel]
    /\ pc' = "paddle_out"
    /\ UNCHANGED <<paddle, bricks, lives, score, paused, game_over, is_win,
                   acc, mixer_ok, losses, steps, since_hit>>

SpecPaddle == InitPaddle /\ [][PaddlePhase]_vars

\* Velocities at the brick test: the four diagonal quadrants.
BrickVelsIn ==
    {<<sx * Round(BALL_SPEED * Sin(30), TRIG),
       sy * Round(BALL_SPEED * Cos(30), TRIG)>> : sx, sy \in DirSigns}

\* The box that holds the bricks of the window.
BrickField ==
    LET r0 == CHOOSE r \in Rows : \A q \in Rows : r <= q
        r1 == CHOOSE r \in Rows : \A q \in Rows : r >= q
        c0 == CHOOSE c \in Cols : \A q \in Cols : c <= q
        c1 == CHOOSE c \in Cols : \A q \in Cols : c >= q
    IN Rect(Left(brick_rect(r0, c0)), Top(brick_rect(r0, c0)),
            Right(brick_rect(r1, c1)) - Left(brick_rect(r0, c0)),
            Bottom(brick_rect(r1, c1)) - Top(brick_rect(r0, c0)))

\* Ball positions around the bricks: every position whose box intersects
\* the brick field, and those one pixel clear of it.
BrickBallsIn ==
    {Rect(x, y, BALL_SIZE, BALL_SIZE) :
        x \in (Left(BrickField) - BALL_SIZE - 1)..(Right(BrickField) + 1),
        y \in (Top(BrickField) - BALL_SIZE - 1)..(Bottom(BrickField) + 1)}

\* Brick grids with at least one brick alive.
BrickGridsIn ==
    {g \in [Rows -> [Cols -> {0, 1}]] : ~all_bricks_cleared(g)}

InitBricks ==
    \E b \in BrickBallsIn, v \in BrickVelsIn, g \in BrickGridsIn :
        PhaseInput("bricks_in", b, v,
                   Rect((WIN_W - PADDLE_W) \div 2, PADDLE_Y,
                        PADDLE_W, PADDLE_H), g)

\* The brick phase of a step.
BrickPhase ==
    /\ pc = "bricks_in"
    /\ LET s4 == Locals
           s5 == Bricks(s4)
       IN /\ ball' = s5.ball
          /\ vel' = s5.vel
          /\ bricks' = s5.bricks
          /\ score' = s5.score
          /\ game_over' = s5.game_over
          /\ is_win' = s5.is_win
          /\ last' = [Still("bricks", ball, vel) EXCEPT
                         !.killed = s5.killed,
                         !.overlap =
                             Cardinality(Overlapping(s4.ball, s4.bricks))]
    /\ pc' = "bricks_out"
    /\ UNCHANGED <<paddle, lives, paused, acc, mixer_ok, losses, steps,
                   since_hit>>

SpecBricks == InitBricks /\ [][BrickPhase]_vars

\* ----------------------------------------------------------- properties
Won == game_over /\ is_win
Lost == game_over /\ ~is_win

Cells == Rows \X Cols
AliveCells(b) == {p \in Cells : b[p[1]][p[2]] # 0}
DeadCells(b) == {p \in Cells : b[p[1]][p[2]] = 0}

\* C1: the game is Won exactly when every brick of the grid is dead; so
\* the step that kills the last alive brick ends in Won.
C1_WonIffAllDead == Won <=> (AliveCells(bricks) = {})

\* A step has just killed the last brick.
C1_Witness ==
    /\ last.op = "step"
    /\ last.killed # {}
    /\ AliveCells(bricks) = {}
    /\ Won

\* C2: lives never goes below 0, the game is Lost exactly when lives is 0,
\* and that is exactly when START_LIVES life-loss events have happened
\* since the last reset.
C2_LostIffNoLives ==
    /\ lives >= 0
    /\ Lost <=> (lives = 0)
    /\ Lost <=> (losses = START_LIVES)
    /\ losses <= START_LIVES

\* The third life has just been lost.
C2_Witness ==
    /\ last.op = "step"
    /\ last.lost
    /\ losses = 3
    /\ Lost

\* C3: right after a Reset command is handled, whatever the state before,
\* all bricks are alive, score is 0, lives is START_LIVES, the game is
\* Playing, and ball and paddle are at the round-start layout.
C3_ResetRestores ==
    last.op = "key_r" =>
        /\ DeadCells(bricks) = {}
        /\ score = 0
        /\ lives = START_LIVES
        /\ ~paused
        /\ ~game_over
        /\ State = "Playing"
        /\ ball = Rect(WIN_W \div 2 - BALL_SIZE \div 2, WIN_H \div 2 + 60,
                       BALL_SIZE, BALL_SIZE)
        /\ paddle = Rect((WIN_W - PADDLE_W) \div 2, PADDLE_Y,
                         PADDLE_W, PADDLE_H)
        /\ vel[2] < 0

\* Reset has just been handled in a Paused game.
C3_Witness == last.op = "key_r" /\ last.from = "Paused"

\* C4: across a fixed step the number of alive bricks drops by at most one
\* and score grows by 0 or by exactly 10.
C4_OneBrickPerStep ==
    [][last'.op = "step" =>
        /\ Cardinality(AliveCells(bricks'))
              >= Cardinality(AliveCells(bricks)) - 1
        /\ score' - score \in {0, 10}]_vars

\* A step in which the ball overlapped two alive bricks killed one.
C4_Witness ==
    /\ last.op = "step"
    /\ last.overlap >= 2
    /\ Cardinality(last.killed) = 1

\* C5: between two resets a dead brick stays dead and is not hit again,
\* and score grows by 10 for each brick that dies and by nothing else.
C5_DeadStaysDead ==
    [][last'.op # "key_r" =>
        /\ \A p \in DeadCells(bricks) :
              /\ bricks'[p[1]][p[2]] = 0
              /\ p \notin last'.killed
        /\ score' - score =
              10 * Cardinality(AliveCells(bricks) \ AliveCells(bricks'))]_vars

\* After a step the ball's box lies over a dead brick that was left alone.
C5_Witness ==
    /\ last.op = "step"
    /\ last.killed = {}
    /\ \E p \in DeadCells(bricks) :
          colliderect(ball, brick_rect(p[1], p[2]))

\* C6: while paused or game_over is set, no action but Reset changes the
\* ball's position, its velocity, the bricks, score or lives, and no
\* simulation step starts.
C6_NoStepWhileStopped ==
    [][(paused \/ game_over) /\ last'.op # "key_r" =>
        /\ UNCHANGED <<ball, vel, bricks, score, lives>>
        /\ last'.op # "step"]_vars

\* An iteration of the drain loop has passed in a paused game.
C6_Witness == last.op = "idle" /\ last.from = "Paused" /\ paused

\* C7: once game_over is set, it stays set and is_win keeps its value
\* through every action but Reset.
C7_TerminalUntilReset ==
    [][game_over /\ last'.op # "key_r" =>
        game_over' /\ is_win' = is_win]_vars

\* P has been pressed in a finished game.
C7_Witness == last.op = "key_p" /\ game_over /\ last.from \in {"Won", "Lost"}

\* C8: lives changes only by Reset, or by exactly -1 in a fixed step whose
\* ball is, after wall resolution, wholly below the window's bottom edge.
C8_LivesOnlyAtBottom ==
    [][lives' # lives =>
        \/ last'.op = "key_r" /\ lives' = START_LIVES
        \/ /\ last'.op = "step"
           /\ Top(last'.wall) > WIN_H
           /\ lives' = lives - 1]_vars

\* A step has just taken a life.
C8_Witness ==
    /\ last.op = "step"
    /\ last.lost
    /\ Top(last.wall) > WIN_H
    /\ lives < START_LIVES

\* C9: a fixed step in which a life is lost leaves bricks and score as
\* they were.
C9_NoHitAfterLoss ==
    [][last'.op = "step" /\ last'.lost =>
        bricks' = bricks /\ score' = score]_vars

\* A life was lost with bricks still alive, and the ball was served again.
C9_Witness ==
    /\ last.op = "step"
    /\ last.lost
    /\ ~game_over
    /\ AliveCells(bricks) # {}

\* C10 as stated: after wall resolution the ball's box lies within the
\* window on all four sides.
C10_Original ==
    last.op = "step" =>
        /\ Left(last.wall) >= 0
        /\ Right(last.wall) <= WIN_W
        /\ Top(last.wall) >= 0
        /\ Bottom(last.wall) <= WIN_H

\* C10 amended: after wall resolution the ball's box lies within the
\* window on its left, right and top sides.
C10_WithinWalls ==
    last.op = "step" =>
        /\ Left(last.wall) >= 0
        /\ Right(last.wall) <= WIN_W
        /\ Top(last.wall) >= 0

\* A step has just resolved the ball against a side wall.
C10_Witness ==
    /\ last.op = "step"
    /\ Left(last.wall) = 0 \/ Right(last.wall) = WIN_W

\* C11: a failed mixer initialisation never halts the program: the
\* simulation starts and runs its frame loop.
C11_MixerFailureTolerated == ~mixer_ok => pc # "crashed"

\* C12: a paddle bounce conserves speed.  The velocity after the response
\* has the magnitude of the velocity before it, to within the rounding of
\* the fixed-point sine and cosine (one part in TRIG) and of the three
\* roundings to whole velocity units.
C12_SpeedConserved ==
    pc = "paddle_out" /\ last.paddle_hit =>
        LET before == Hypot(last.pv0[1], last.pv0[2])
            after  == Hypot(vel[1], vel[2])
        IN Abs(after - before) * TRIG <= before + 2 * TRIG

\* The response fired on a ball whose centre is beyond the paddle's edge.
C12_Witness ==
    /\ pc = "paddle_out"
    /\ last.paddle_hit
    /\ CenterX(last.pball0) > Right(last.ppad)
    /\ last.pv0[1] # 0

\* C13: whenever the paddle response fires, the offset ball.centerx -
\* paddle.left that enters the angle formula lies within [0, paddle.width].
C13_OffsetClamped ==
    last.op = "step" /\ last.paddle_hit =>
        LET d == CenterX(last.pball0) - Left(last.ppad)
        IN 0 <= d /\ d <= last.ppad.w

\* C14: the paddle response changes ball or velocity only if the ball's box
\* intersects the paddle's box and vy > 0 at the paddle test; when it
\* fires it leaves ball.bottom = paddle.top - 1 and vy < 0; and it does not
\* fire in the fixed step that follows one in which it fired.
C14_PaddleFiresOnce ==
    [][last'.op = "step" =>
        /\ (last'.pball1 # last'.pball0 \/ last'.pv1 # last'.pv0) =>
              /\ colliderect(last'.pball0, last'.ppad)
              /\ last'.pv0[2] > 0
              /\ last'.paddle_hit
        /\ last'.paddle_hit =>
              /\ Bottom(last'.pball1) = Top(last'.ppad) - 1
              /\ last'.pv1[2] < 0
        /\ since_hit = 0 => ~last'.paddle_hit]_vars

\* The step after a paddle response has run, and the response stayed quiet.
C14_Witness ==
    /\ last.op = "step"
    /\ since_hit = 1
    /\ ~last.paddle_hit
    /\ vel[2] < 0

\* The four penetration depths of ball b into brick rb, in the order
\* left, right, top, bottom.
Pens(b, rb) ==
    <<Right(rb) - Left(b), Right(b) - Left(rb),
      Bottom(rb) - Top(b), Bottom(b) - Top(rb)>>

\* The first side, in that order, whose depth is the smallest.
FirstMinSide(b, rb) ==
    CHOOSE i \in 1..4 :
        /\ \A j \in 1..4 : Pens(b, rb)[i] <= Pens(b, rb)[j]
        /\ \A j \in 1..(i - 1) : Pens(b, rb)[j] > Pens(b, rb)[i]

\* C15: the brick that is hit reflects the ball on the side of smallest
\* penetration, ties going to the first of left, right, top, bottom; only
\* the velocity component orthogonal to that side is negated; and the ball
\* is moved one pixel beyond that edge of the brick, on that axis only.
C15_MinPenetration ==
    pc = "bricks_out" /\ last.killed # NoCell =>
        \A p \in last.killed :
            LET rb == brick_rect(p[1], p[2])
                b0 == last.pball1
                v0 == last.pv1
                side == FirstMinSide(b0, rb)
            IN /\ side <= 2 =>
                    /\ vel = <<-v0[1], v0[2]>>
                    /\ Top(ball) = Top(b0)
               /\ side >= 3 =>
                    /\ vel = <<v0[1], -v0[2]>>
                    /\ Left(ball) = Left(b0)
               /\ side = 1 => Left(ball) = Right(rb) + 1
               /\ side = 2 => Right(ball) = Left(rb) - 1
               /\ side = 3 => Top(ball) = Bottom(rb) + 1
               /\ side = 4 => Bottom(ball) = Top(rb) - 1
               /\ ball.w = b0.w /\ ball.h = b0.h

\* A hit whose smallest penetration is shared by a horizontal and a
\* vertical side, reflected horizontally.
C15_Witness ==
    /\ pc = "bricks_out"
    /\ \E p \in last.killed :
          LET pens == Pens(last.pball1, brick_rect(p[1], p[2]))
          IN /\ pens[2] = pens[4]
             /\ pens[2] < pens[1] /\ pens[2] < pens[3]
             /\ Right(ball) = Left(brick_rect(p[1], p[2])) - 1

\* The first cell of a set of cells in row-major order.
FirstCell(S) ==
    CHOOSE p \in S :
        \A q \in S : p[1] < q[1] \/ (p[1] = q[1] /\ p[2] <= q[2])

C17_WallBounce ==
    last.op = "step" =>
        LET m  == last.moved
            v0 == last.v0
            w  == last.wall
            v1 == last.wvel
            left  == Left(m) <= 0
            right == ~left /\ Right(m) >= WIN_W
            top   == Top(m) <= 0
        IN /\ left  => Left(w) = 0 /\ v0[1] < 0 /\ v1[1] = -v0[1]
           /\ right => Right(w) = WIN_W /\ v0[1] > 0 /\ v1[1] = -v0[1]
           /\ top   => Top(w) = 0 /\ v0[2] < 0 /\ v1[2] = -v0[2]
           /\ ~left /\ ~right => Left(w) = Left(m) /\ v1[1] = v0[1]
           /\ ~top => Top(w) = Top(m) /\ v1[2] = v0[2]
           /\ Bottom(m) >= WIN_H => Top(w) = Top(m) /\ v1[2] = v0[2]

\* A step in which the ball reached the right wall.
C17_Witness ==
    /\ last.op = "step"
    /\ Right(last.moved) >= WIN_W
    /\ Right(last.wall) = WIN_W
    /\ last.wvel[1] < 0

\* C18: the drain loop is left, and every frame begins, with
\* 0 <= acc < DT; each iteration of the loop takes exactly one DT from acc,
\* whether it simulates or not, and one that does not simulate leaves the
\* entities alone; while the simulation is stopped a backlog of DT or more
\* can only be drained, so no backlog is carried into a later frame.
C18_DrainLoop ==
    [][/\ acc' >= 0
       /\ pc' = "timing" => acc' < DT
       /\ last'.op \in {"step", "idle"} => acc >= DT /\ acc' = acc - DT
       /\ last'.op = "idle" => UNCHANGED <<ball, vel, paddle, bricks,
                                           lives, score>>
       /\ pc = "update" /\ acc >= DT /\ ~StepRuns =>
             last'.op = "idle" /\ pc' = "update"
       /\ pc = "timing" => acc' - acc \in FrameTicks]_vars

\* While paused the loop has drained a frame's time down to a remainder
\* smaller than DT.
C18_Witness ==
    /\ pc = "update"
    /\ last.op = "idle"
    /\ paused
    /\ 0 < acc /\ acc < DT

\* The ball is in play with int(vy * DT) = 0 at a height where its box
\* meets neither the paddle's rows, nor the rows of an alive brick, nor the
\* top or bottom edge.
Stalled ==
    /\ State = "Playing"
    /\ StepPixels(vel[2]) = 0
    /\ Top(ball) > 0 /\ Top(ball) <= WIN_H
    /\ Bottom(ball) <= Top(paddle) \/ Top(ball) >= Bottom(paddle)
    /\ \A p \in AliveCells(bricks) :
          \/ Bottom(ball) <= Top(brick_rect(p[1], p[2]))
          \/ Top(ball) >= Bottom(brick_rect(p[1], p[2]))

\* A stalled ball stays stalled through every further step, and no step
\* destroys a brick, triggers the paddle response or loses a life.
StallIsPermanent ==
    [][Stalled /\ last'.op = "step" =>
          /\ Stalled'
          /\ Top(ball') = Top(ball)
          /\ ~last'.paddle_hit /\ ~last'.lost /\ last'.killed = NoCell]_vars

\* C19: the ball never stalls: no reachable Playing state starts an
\* endless run of steps with int(vy * DT) = 0 and without a brick
\* destroyed, a paddle response or a life lost.
C19_NeverStalls == ~Stalled

\* C20: in every state score is 10 times the number of dead bricks of the
\* grid, hence between 0 and 10 times the number of bricks.
C20_ScoreCountsDead ==
    /\ score = BRICK_SCORE * Cardinality(DeadCells(bricks))
    /\ 0 <= score /\ score <= BRICK_SCORE * Cardinality(Cells)

\* A brick has been destroyed, a life has then been lost and the game is
\* paused.
C20_Witness ==
    /\ score > 0
    /\ losses >= 1
    /\ paused
    /\ lives < START_LIVES

====
